---- MODULE Spec2Model ----
(***************************************************************************)
(* Heirlooms MVP: the artifact ingestion handler (POST /api/ingest) in the *)
(* four variants the repository holds, with its helpers toSlug,            *)
(* structureArtifact and transcribeAudio, over a model of the datastore    *)
(* and of the three external services.                                     *)
(*                                                                         *)
(* Text the code processes character by character (titles, notes,         *)
(* collection references) is a sequence of one-character strings; text it  *)
(* only passes along (URLs, messages, summaries) is an atomic string.      *)
(***************************************************************************)
EXTENDS Integers, Sequences, FiniteSets, TLC

\* ------------------------------------------------------------------ bounds

\* Longest title enumerated exhaustively over SlugAlphabet.
MaxShortTitle == 3
\* Most image files in one submission.
MaxImages == 2
\* Longest media array a generation response carries.
MaxGenMedia == 1

\* ------------------------------------------------------- program constants

SlugMaxLen == 60
FallbackTitleLen == 60
GenTitleMaxLen == 120
RandSliceFrom == 2
RandSliceTo == 8
UuidLen == 36

\* ------------------------------------------------------------- characters

LowerSeq ==
  <<"a","b","c","d","e","f","g","h","i","j","k","l","m",
    "n","o","p","q","r","s","t","u","v","w","x","y","z">>

UpperSeq ==
  <<"A","B","C","D","E","F","G","H","I","J","K","L","M",
    "N","O","P","Q","R","S","T","U","V","W","X","Y","Z">>

DigitSeq == <<"0","1","2","3","4","5","6","7","8","9">>

SeqRange(s) == { s[i] : i \in DOMAIN s }

Lower == SeqRange(LowerSeq)
Upper == SeqRange(UpperSeq)
Digits == SeqRange(DigitSeq)

\* [a-z0-9]
SlugAlnum == Lower \cup Digits
\* [0-9a-f] under the i flag
HexChars == Digits \cup {"a","b","c","d","e","f","A","B","C","D","E","F"}
\* \s as far as the inputs use it
Whitespace == {" ", "\t", "\n"}

Rep(c, n) == [i \in 1..n |-> c]

Last(s) == s[Len(s)]
Front(s) == SubSeq(s, 1, Len(s) - 1)

\* String.prototype.slice(from, to) for 0 <= from, 0 <= to.
Slice(s, from, to) ==
  LET hi == IF to < Len(s) THEN to ELSE Len(s)
  IN  IF from >= hi THEN <<>> ELSE SubSeq(s, from + 1, hi)

\* String.prototype.toLowerCase on one character.
ToLowerChar(c) ==
  IF c \in Upper
    THEN LowerSeq[CHOOSE i \in DOMAIN UpperSeq : UpperSeq[i] = c]
    ELSE c

ToLowerCase(s) == [i \in DOMAIN s |-> ToLowerChar(s[i])]

\* String.prototype.trim
RECURSIVE TrimStart(_)
TrimStart(s) ==
  IF s # <<>> /\ Head(s) \in Whitespace THEN TrimStart(Tail(s)) ELSE s

RECURSIVE TrimEnd(_)
TrimEnd(s) ==
  IF s # <<>> /\ Last(s) \in Whitespace THEN TrimEnd(Front(s)) ELSE s

Trim(s) == TrimEnd(TrimStart(s))

\* ------------------------------------------------------------------ toSlug

\* .replace(/[^a-z0-9]+/g, "-"): every maximal run of characters outside
\* a-z0-9 becomes one hyphen, put where the run starts. The positions lo..hi
\* of s are rewritten by halves, which keeps the evaluation shallow.
RECURSIVE ReplaceRunsIn(_, _, _)
ReplaceRunsIn(s, lo, hi) ==
  IF lo > hi THEN <<>>
  ELSE IF lo = hi
    THEN IF s[lo] \in SlugAlnum THEN <<s[lo]>>
         ELSE IF lo > 1 /\ s[lo - 1] \notin SlugAlnum THEN <<>>
         ELSE <<"-">>
  ELSE LET mid == (lo + hi) \div 2
       IN  ReplaceRunsIn(s, lo, mid) \o ReplaceRunsIn(s, mid + 1, hi)

ReplaceRuns(s) == ReplaceRunsIn(s, 1, Len(s))

\* .replace(/(^-|-$)/g, ""): a hyphen at index 0 and a hyphen at the last
\* index are removed.
StripEdgeHyphens(s) ==
  LET a == IF s # <<>> /\ Head(s) = "-" THEN Tail(s) ELSE s
  IN  IF a # <<>> /\ Last(a) = "-" THEN Front(a) ELSE a

\* The text of a Math.random() value in base 36 is "0" for the value 0 and
\* "0." followed by its base-36 fraction digits otherwise; frac is that
\* digit sequence (empty for 0).
RandomToString36(frac) ==
  IF frac = <<>> THEN <<"0">> ELSE <<"0", ".">> \o frac

\* `artifact-${Math.random().toString(36).slice(2, 8)}`
ArtifactPrefix == <<"a","r","t","i","f","a","c","t","-">>

RandomSlug(frac) ==
  ArtifactPrefix \o Slice(RandomToString36(frac), RandSliceFrom, RandSliceTo)

SlugBase(s) ==
  Slice(StripEdgeHyphens(ReplaceRuns(ToLowerCase(s))), 0, SlugMaxLen)

toSlug(s, frac) ==
  LET base == SlugBase(s)
  IN  IF base # <<>> THEN base ELSE RandomSlug(frac)

\* ------------------------------------------------------------ uuidRegex

\* /^[0-9a-f]{8}-[0-9a-f]{4}-[1-5][0-9a-f]{3}-[89ab][0-9a-f]{3}-[0-9a-f]{12}$/i
UuidHyphenAt == {9, 14, 19, 24}
UuidVersionAt == 15
UuidVariantAt == 20

uuidRegexTest(s) ==
  /\ Len(s) = UuidLen
  /\ \A i \in 1..UuidLen :
       IF i \in UuidHyphenAt THEN s[i] = "-"
       ELSE IF i = UuidVersionAt THEN s[i] \in {"1","2","3","4","5"}
       ELSE IF i = UuidVariantAt THEN s[i] \in {"8","9","a","b","A","B"}
       ELSE s[i] \in HexChars

\* ---------------------------------------------------------------- values

\* null / undefined of an atomic value
Null == "null"
\* null of a text value: the code turns "" into null with `|| null`, and no
\* identifier is the empty string
NoRef == <<>>

NoTranscript == [present |-> FALSE, text |-> <<>>]
SomeTranscript(t) == [present |-> TRUE, text |-> t]

UntitledArtifact ==
  <<"U","n","t","i","t","l","e","d"," ","A","r","t","i","f","a","c","t">>

SummaryNotes == "Generated from notes."
SummaryTranscript == "Generated from notes and audio transcript."
SummaryMvp == "Generated by MVP."
SummaryViaMvp == "Generated via MVP."

MsgUnauthorized == "Unauthorized. Please sign in to create artifacts."
MsgNotAuthenticated == "Not authenticated"

WarnNoCollection == "collectionId provided but not a UUID and no collection found for slug"
WarnPatchFailed == "inserted but failed to patch collection_id"
WarnPatchThrew == "inserted but patch attempt failed"
WarnPatchException == "inserted but failed to patch collection_id (exception)."

Variants == {"part000", "route", "part008a", "part008b"}

\* the variants with a session check
AuthVariants == {"route", "part008a", "part008b"}
\* the variants with the identifier normalizer
NormalizerVariants == {"part008a", "part008b"}

\* ---------------------------------------------------------- the datastore

\* a version-4 identifier, the id of the one collection of the store
UuidA ==
  Rep("a", 8) \o <<"-">> \o Rep("b", 4) \o <<"-", "4">> \o Rep("c", 3)
    \o <<"-", "8">> \o Rep("d", 3) \o <<"-">> \o Rep("e", 12)

\* a well-formed version-4 identifier in upper case, of no stored collection
UuidUpper ==
  Rep("A", 8) \o <<"-">> \o Rep("B", 4) \o <<"-", "4">> \o Rep("C", 3)
    \o <<"-", "B">> \o Rep("D", 3) \o <<"-">> \o Rep("E", 12)

\* a version-7 identifier: well formed, but outside [1-5] at the version digit
UuidV7 ==
  Rep("0", 8) \o <<"-">> \o Rep("1", 4) \o <<"-", "7">> \o Rep("2", 3)
    \o <<"-", "8">> \o Rep("3", 3) \o <<"-">> \o Rep("4", 12)

SlugFamily == <<"f","a","m","i","l","y">>
SlugMissing == <<"n","o","p","e">>

CollectionRows == { [id |-> UuidA, slug |-> SlugFamily] }

ArtifactColumns ==
  {"id", "slug", "data", "json", "title", "summary", "owner_id",
   "collection_id", "created_at"}

\* the schemas of the artifacts table a deployment may have: with or
\* without collection_id, with or without title and summary
Schemas ==
  { ArtifactColumns,
    ArtifactColumns \ {"collection_id"},
    ArtifactColumns \ {"title", "summary"},
    ArtifactColumns \ {"collection_id", "title", "summary"} }

Err42703 == [code |-> "42703", message |-> "column does not exist"]
ErrOther == [code |-> "42501", message |-> "new row violates row-level security policy"]
NoErr == [code |-> Null, message |-> Null]

\* --------------------------------------------------- the external services

\* the URL the object host returns for the i-th image file of a submission
ImageUrl(i) ==
  IF i = 1 THEN "https://res.cloudinary.com/h/image/1.jpg"
  ELSE IF i = 2 THEN "https://res.cloudinary.com/h/image/2.jpg"
  ELSE IF i = 3 THEN "https://res.cloudinary.com/h/image/3.jpg"
  ELSE "https://res.cloudinary.com/h/image/4.jpg"

AudioUrl == "https://res.cloudinary.com/h/audio/1.mp3"
OtherUrl == "https://example.com/other.jpg"
NotAUrl == "not a url"

\* z.string().url()
IsUrl(s) == s # NotAUrl /\ s # ""

ImageItem(u) == [type |-> "image", src |-> u, alt |-> Null]
AudioItem(u) == [type |-> "audio", src |-> u, alt |-> Null]

\* the media entries a generation response is built from
GenEntries ==
  { [type |-> "image", src |-> ImageUrl(1), alt |-> "a watch"],
    [type |-> "image", src |-> OtherUrl, alt |-> Null],
    [type |-> "image", src |-> NotAUrl, alt |-> Null],
    [type |-> "video", src |-> ImageUrl(1), alt |-> Null] }

SeqsUpTo(S, n) == UNION { [1..k -> S] : k \in 0..n }

GenTitleShort == <<"O","l","d"," ","W","a","t","c","h">>
GenTitleLong == Rep("a", GenTitleMaxLen + 1)

\* a generation response that passes the shape check with no media
GenJsonBase ==
  [wellTyped |-> TRUE, title |-> GenTitleShort, summary |-> "A summary.", media |-> <<>>]

\* the JSON objects a generation response may hold: the base object with
\* each media array, and with one field off (wellTyped is FALSE when a field
\* is missing or of the wrong type)
GenJson ==
  { [GenJsonBase EXCEPT !.media = m] : m \in SeqsUpTo(GenEntries, MaxGenMedia) }
    \cup { [GenJsonBase EXCEPT !.title = t] : t \in {<<>>, GenTitleLong} }
    \cup { [GenJsonBase EXCEPT !.summary = ""],
           [GenJsonBase EXCEPT !.wellTyped = FALSE] }

\* what the generation request yields
GenFailures == {"netfail", "non2xx", "notext", "badjson", "nulljson"}

GenResponses ==
  { [kind |-> k, json |-> [wellTyped |-> FALSE, title |-> <<>>, summary |-> "", media |-> <<>>]] :
      k \in GenFailures }
    \cup { [kind |-> "json", json |-> j] : j \in GenJson }

\* what the transcription request yields: a failure, a body without text,
\* or a body with text (which may be the empty string)
TranscribeResponses ==
  { [kind |-> k, text |-> <<>>] : k \in {"netfail", "non2xx", "notext"} }
    \cup { [kind |-> "text", text |-> t] : t \in {<<>>, <<"H","i">>} }

\* with no API key the request carries "Bearer undefined": the service
\* refuses it, or the request fails
Unkeyed(kind) == kind \in {"netfail", "non2xx"}

\* the base-36 fraction digits Math.random() may have: none (the value 0),
\* one (0.5), six and eight
RandFracs ==
  { <<>>, <<"i">>, <<"k","2","x","9","q","0">>,
    <<"z","z","1","a","b","c","d","e">> }

\* ------------------------------------------------------------ the request

TextLong == Rep("a", SlugMaxLen - 1) \o <<" ", "b">>

\* the collection reference of a submission: the field that carries it and
\* its value
ColInputs ==
  { <<"none", NoRef>>,
    <<"collectionId", UuidA>>,
    <<"collectionId", UuidV7>>,
    <<"collectionId", SlugFamily>>,
    <<"collectionId", SlugMissing>>,
    <<"collection_id", SlugFamily>>,
    <<"collection", UuidA>> }

TextShort == <<" ","A","b"," ">>

\* carrier: where the text fields travel (multipart form, JSON body, query
\* string of a multipart request); files travel in a multipart form only.
\* The submissions: the short notes with every collection reference, the
\* empty and the long notes without one, and the JSON and query carriers.
Requests ==
  { [carrier |-> "form", text |-> TextShort, colField |-> c[1], colValue |-> c[2],
     nImages |-> n, audio |-> a] :
      c \in ColInputs, n \in 0..MaxImages, a \in BOOLEAN }
  \cup
  { [carrier |-> "form", text |-> t, colField |-> "none", colValue |-> NoRef,
     nImages |-> n, audio |-> a] :
      t \in {<<>>, TextLong}, n \in 0..1, a \in BOOLEAN }
  \cup
  { [carrier |-> k, text |-> TextShort, colField |-> c[1], colValue |-> c[2],
     nImages |-> IF k = "query" THEN 1 ELSE 0, audio |-> FALSE] :
      k \in {"json", "query"},
      c \in { <<"none", NoRef>>, <<"collectionId", UuidA>>,
              <<"collection", SlugFamily>> } }

Field(r, k) ==
  IF k = "text" THEN r.text
  ELSE IF k = r.colField THEN r.colValue
  ELSE <<>>

IsMultipart(r) == r.carrier \in {"form", "query"}

\* formData.get(k) as the handlers use it: String(v || "")
FormGet(r, k) == IF r.carrier = "form" THEN Field(r, k) ELSE <<>>
JsonGet(r, k) == IF r.carrier = "json" THEN Field(r, k) ELSE <<>>
QueryGet(r, k) == IF r.carrier = "query" THEN Field(r, k) ELSE <<>>

\* a || b on text values
OrElse(a, b) == IF a # <<>> THEN a ELSE b

getNorm(r, k) ==
  OrElse(Trim(FormGet(r, k)), OrElse(Trim(JsonGet(r, k)), Trim(QueryGet(r, k))))

\* ------------------------------------------------------------------ state

VARIABLES
  variant,      \* which of the repository's ingest handlers serves the request
  hasKey,       \* process.env.OPENAI_API_KEY is set
  schema,       \* the columns of the artifacts table
  collections,  \* the collections table
  artifacts,    \* the artifacts table
  req,          \* the submission
  pc,           \* the await the handler is suspended at
  loc,          \* the handler's local variables
  resp,         \* the response returned
  calls,        \* the calls made to the session, the store and the services
  attempts,     \* the column set of each insert attempt
  profiles      \* the profiles table

vars ==
  <<variant, hasKey, schema, collections, artifacts, req, pc, loc, resp,
    calls, attempts, profiles>>

env == <<variant, hasKey, collections, req, profiles>>

NoResp ==
  [status |-> 0, keys |-> {}, id |-> 0, slug |-> <<>>, collection_id |-> NoRef,
   warning |-> Null, error |-> Null]

NoPayload ==
  [title |-> <<>>, summary |-> Null, media |-> <<>>, transcript |-> NoTranscript,
   collection_id |-> NoRef]

NoInserted == [id |-> 0, slug |-> <<>>, collection_id |-> NoRef]

InitLoc ==
  [ user |-> Null, text |-> <<>>, colParam |-> NoRef, collectionId |-> NoRef,
    ingestWarning |-> Null, uploadedImages |-> <<>>, imgIdx |-> 1,
    audioUrl |-> Null, transcript |-> NoTranscript,
    title |-> <<>>, summary |-> Null, media |-> <<>>, slug |-> <<>>,
    dataPayload |-> NoPayload, inserted |-> NoInserted, insertErr |-> NoErr,
    finalCollectionId |-> NoRef ]

Init ==
  /\ variant \in Variants
  /\ hasKey \in BOOLEAN
  /\ schema \in Schemas
  /\ collections = CollectionRows
  /\ artifacts = <<>>
  /\ req \in Requests
  /\ pc = IF variant \in AuthVariants THEN "auth" ELSE "parse"
  /\ loc = InitLoc
  /\ resp = NoResp
  /\ calls = <<>>
  /\ attempts = <<>>
  /\ profiles = {}

\* ---------------------------------------------------------- the responses

ErrorResponse(status, msg) ==
  [NoResp EXCEPT !.status = status, !.keys = {"error"}, !.error = msg]

\* NextResponse.json({ slug }, { status: 200 })
SlugResponse(slug) ==
  [NoResp EXCEPT !.status = 200, !.keys = {"slug"}, !.slug = slug]

\* Catch with the exception let out of the handler: no response is returned
CatchRethrow(msg) ==
  /\ resp' = resp
  /\ pc' = "done"

\* the catch of the handler: status 500 with the exception's message
Catch(msg) ==
  /\ resp' = ErrorResponse(500, msg)
  /\ pc' = "done"

\* AfterResolve with the audio taken before the images, which are skipped
AfterResolveAudioFirst ==
  IF IsMultipart(req) /\ req.audio THEN "audio"
  ELSE IF IsMultipart(req) /\ req.nImages > 0 THEN "images"
  ELSE "structure"

\* the await that follows the parsing and the resolution of the reference
AfterResolve ==
  IF IsMultipart(req) /\ req.nImages > 0 THEN "images"
  ELSE IF IsMultipart(req) /\ req.audio THEN "audio"
  ELSE "structure"

AfterImages == IF req.audio THEN "audio" ELSE "structure"

\* ---------------------------------------------------------- session check

AuthOutcomes == {"ok", "error", "nouser"}

UnauthorizedMessage(v) ==
  IF v = "part008b" THEN MsgNotAuthenticated ELSE MsgUnauthorized

\* GetUser with the return of the 401 branch left out: the handler goes on
\* with no user
GetUserNoReturn ==
  /\ pc = "auth"
  /\ calls' = Append(calls, "getUser")
  /\ \E o \in AuthOutcomes :
       /\ loc' = [loc EXCEPT !.user = IF o = "ok" THEN "user-1" ELSE Null]
       /\ pc' = "parse"
       /\ resp' = resp
  /\ UNCHANGED <<env, schema, artifacts, attempts>>

GetUser ==
  /\ pc = "auth"
  /\ calls' = Append(calls, "getUser")
  /\ \E o \in AuthOutcomes :
       IF o = "ok"
         THEN /\ loc' = [loc EXCEPT !.user = "user-1"]
              /\ pc' = "parse"
              /\ resp' = resp
         ELSE /\ resp' = ErrorResponse(401, UnauthorizedMessage(variant))
              /\ pc' = "done"
              /\ loc' = loc
  /\ UNCHANGED <<env, schema, artifacts, attempts>>

\* ------------------------------------------------------ reading the request

ImageCap == 8

MsgNotMultipart == "Content-Type was not one of multipart/form-data or application/x-www-form-urlencoded"

\* the notes text each handler reads
TextOf(v, r) ==
  IF v = "part008b" THEN getNorm(r, "text") ELSE FormGet(r, "text")

\* the collection reference each handler reads
ColParamOf(v, r) ==
  IF v = "part008b"
    THEN OrElse(getNorm(r, "collectionId"),
                OrElse(getNorm(r, "collection_id"), getNorm(r, "collection")))
  ELSE IF v = "part008a"
    THEN Trim(OrElse(FormGet(r, "collectionId"), FormGet(r, "collection_id")))
  ELSE IF v = "route"
    THEN Trim(FormGet(r, "collectionId"))
  ELSE NoRef

\* DirectCollectionId with the format check left out: every reference of a
\* normalizing handler goes to the lookup
DirectCollectionIdAlwaysLookup(v, colParam) ==
  IF v \in NormalizerVariants THEN NoRef ELSE colParam

\* the collection identifier before any lookup
DirectCollectionId(v, colParam) ==
  IF v \in NormalizerVariants
    THEN IF colParam # NoRef /\ uuidRegexTest(colParam) THEN colParam ELSE NoRef
    ELSE colParam

\* the number of image files the handler uploads
ImageCount(v, r) ==
  IF ~IsMultipart(r) THEN 0
  ELSE IF v = "part000" /\ r.nImages > ImageCap THEN ImageCap
  ELSE r.nImages

ParseRequest ==
  /\ pc = "parse"
  /\ IF variant # "part008b" /\ ~IsMultipart(req)
       THEN /\ Catch(MsgNotMultipart)
            /\ loc' = loc
       ELSE LET colParam == ColParamOf(variant, req)
                collectionId == DirectCollectionId(variant, colParam)
            IN  /\ loc' = [loc EXCEPT !.text = TextOf(variant, req),
                                      !.colParam = colParam,
                                      !.collectionId = collectionId]
                /\ pc' = IF variant \in NormalizerVariants
                              /\ collectionId = NoRef /\ colParam # NoRef
                           THEN "resolve"
                           ELSE AfterResolve
                /\ resp' = resp
  /\ UNCHANGED <<env, schema, artifacts, calls, attempts>>

\* --------------------------------------------------- identifier normalizer

LookupOutcomes == {"rows", "error", "throws"}

\* .from("collections").select("id").eq("slug", colParam).limit(1)
FindBySlug(table, slug) == { c \in table : c.slug = slug }

ResolveSlug ==
  /\ pc = "resolve"
  /\ calls' = Append(calls, "lookup")
  /\ \E o \in LookupOutcomes :
       LET found == FindBySlug(collections, loc.colParam)
       IN  IF o = "rows" /\ found # {}
             THEN \E c \in found : loc' = [loc EXCEPT !.collectionId = c.id]
           ELSE IF o = "throws"
             THEN loc' = loc
           ELSE loc' = [loc EXCEPT !.ingestWarning = WarnNoCollection]
  /\ pc' = AfterResolve
  /\ UNCHANGED <<env, schema, artifacts, resp, attempts>>

\* ------------------------------------------------------------ media uploader

MsgUploadFailed == "No result"

\* the handler catches the failure of one upload and goes on
CatchesUploadFailure(v) == v = "part000"

UploadImage ==
  /\ pc = "images"
  /\ calls' = Append(calls, "uploadImage")
  /\ \E ok \in BOOLEAN :
       IF ok
         THEN /\ loc' = [loc EXCEPT
                   !.uploadedImages = Append(@, ImageUrl(loc.imgIdx)),
                   !.imgIdx = @ + 1]
              /\ pc' = IF loc.imgIdx >= ImageCount(variant, req)
                         THEN AfterImages ELSE "images"
              /\ resp' = resp
       ELSE IF CatchesUploadFailure(variant)
         THEN /\ loc' = [loc EXCEPT !.imgIdx = @ + 1]
              /\ pc' = IF loc.imgIdx >= ImageCount(variant, req)
                         THEN AfterImages ELSE "images"
              /\ resp' = resp
       ELSE /\ Catch(MsgUploadFailed)
            /\ loc' = loc
  /\ UNCHANGED <<env, schema, artifacts, attempts>>

UploadAudio ==
  /\ pc = "audio"
  /\ calls' = Append(calls, "uploadAudio")
  /\ \E ok \in BOOLEAN :
       IF ok
         THEN /\ loc' = [loc EXCEPT !.audioUrl = AudioUrl]
              /\ pc' = "transcribe"
              /\ resp' = resp
       ELSE IF CatchesUploadFailure(variant)
         THEN /\ loc' = loc
              /\ pc' = "transcribe"
              /\ resp' = resp
       ELSE /\ Catch(MsgUploadFailed)
            /\ loc' = loc
  /\ UNCHANGED <<env, schema, artifacts, attempts>>

\* --------------------------------------------------------- speech transcriber

\* transcribeAudio returns undefined without a request when no key is set
SkipsUnkeyedCalls(v) == v \in {"route", "part008a"}

\* transcribeAudio, and the try/catch around it in the first handler: any
\* failure gives undefined, a body gives its text field
transcribeAudio(t) ==
  IF t.kind = "text" THEN SomeTranscript(t.text) ELSE NoTranscript

\* Transcribe with a failure of the transcription left uncaught
TranscribeUncaught ==
  /\ pc = "transcribe"
  /\ calls' = Append(calls, "transcribe")
  /\ \E t \in TranscribeResponses :
       /\ hasKey \/ Unkeyed(t.kind)
       /\ IF t.kind = "text"
            THEN /\ loc' = [loc EXCEPT !.transcript = SomeTranscript(t.text)]
                 /\ pc' = "structure"
                 /\ resp' = resp
            ELSE /\ Catch("Whisper error")
                 /\ loc' = loc
  /\ UNCHANGED <<env, schema, artifacts, attempts>>

Transcribe ==
  /\ pc = "transcribe"
  /\ IF ~hasKey /\ SkipsUnkeyedCalls(variant)
       THEN /\ loc' = [loc EXCEPT !.transcript = NoTranscript]
            /\ calls' = calls
       ELSE /\ calls' = Append(calls, "transcribe")
            /\ \E t \in TranscribeResponses :
                 /\ hasKey \/ Unkeyed(t.kind)
                 /\ loc' = [loc EXCEPT !.transcript = transcribeAudio(t)]
  /\ pc' = "structure"
  /\ UNCHANGED <<env, schema, artifacts, resp, attempts>>

\* ---------------------------------------------------------- content structurer

\* a transcript in a condition: undefined and "" are falsy
Truthy(t) == t.present /\ t.text # <<>>

ImageItems(urls) == [i \in DOMAIN urls |-> ImageItem(urls[i])]

\* the fallback object of structureArtifact
Fallback(text, urls, transcript) ==
  [ threw |-> FALSE,
    title |-> IF Trim(text) # <<>>
                THEN Slice(Trim(text), 0, FallbackTitleLen)
                ELSE OrElse(Slice(Trim(transcript.text), 0, FallbackTitleLen),
                            UntitledArtifact),
    summary |-> IF Truthy(transcript) THEN SummaryTranscript ELSE SummaryNotes,
    media |-> ImageItems(urls) ]

\* Shape.parse: title a non-empty string (of at most maxLen characters when
\* maxLen > 0), summary a non-empty string, media an array of
\* {type: "image", src: URL, alt?}
ShapeOk(j, maxLen) ==
  /\ j.wellTyped
  /\ Len(j.title) >= 1
  /\ maxLen > 0 => Len(j.title) <= maxLen
  /\ j.summary # ""
  /\ \A i \in DOMAIN j.media : j.media[i].type = "image" /\ IsUrl(j.media[i].src)

\* the text of the response parsed to an object that passes the shape check
Validated(gen, maxLen) == gen.kind = "json" /\ ShapeOk(gen.json, maxLen)

RECURSIVE SelectSeq2(_, _)
SelectSeq2(s, keep) ==
  IF s = <<>> THEN <<>>
  ELSE IF Head(s) \in keep THEN <<Head(s)>> \o SelectSeq2(Tail(s), keep)
  ELSE SelectSeq2(Tail(s), keep)

\* Additions with the append of the missing image URLs left out
AdditionsNone(safeMedia, urls) == <<>>

\* input.imageUrls.filter((u) => !existing.has(u)).map(...)
Additions(safeMedia, urls) ==
  LET existing == { safeMedia[i].src : i \in DOMAIN safeMedia }
  IN  ImageItems(SelectSeq2(urls, SeqRange(urls) \ existing))

Primary(json, urls) ==
  [ threw |-> FALSE, title |-> json.title, summary |-> json.summary,
    media |-> json.media \o Additions(json.media, urls) ]

Threw == [threw |-> TRUE, title |-> <<>>, summary |-> "", media |-> <<>>]

\* structureArtifact of route.ts and of the first handler of part_008: the
\* fallback without a key and on every failure
structureArtifactRoute(text, urls, transcript, key, gen) ==
  IF ~key THEN Fallback(text, urls, transcript)
  ELSE IF Validated(gen, 0) THEN Primary(gen.json, urls)
  ELSE Fallback(text, urls, transcript)

\* structureArtifact of the second handler of part_008: no fallback, every
\* failure is thrown
structureArtifact008b(text, urls, transcript, key, gen) ==
  IF Validated(gen, GenTitleMaxLen) THEN Primary(gen.json, urls) ELSE Threw

\* structureArtifact of part_000: every failure is thrown, and all the
\* image URLs follow the generated media
structureArtifact000(text, urls, transcript, key, gen) ==
  IF Validated(gen, 0)
    THEN [ threw |-> FALSE, title |-> gen.json.title, summary |-> gen.json.summary,
           media |-> gen.json.media \o ImageItems(urls) ]
    ELSE Threw

structureArtifact(v, text, urls, transcript, key, gen) ==
  IF v = "part000" THEN structureArtifact000(text, urls, transcript, key, gen)
  ELSE IF v = "part008b" THEN structureArtifact008b(text, urls, transcript, key, gen)
  ELSE structureArtifactRoute(text, urls, transcript, key, gen)

MsgStructureFailed == "No JSON returned"

\* AudioItems with the audio entry left out of the media
AudioItemsNone(audioUrl) == <<>>

AudioItems(audioUrl) == IF audioUrl # Null THEN <<AudioItem(audioUrl)>> ELSE <<>>

\* title, summary and media as the handler takes them from the structurer
Assemble(v, s, text, urls, audioUrl) ==
  IF v = "part000"
    THEN [ title |-> IF s.threw THEN OrElse(Trim(text), UntitledArtifact) ELSE s.title,
           summary |-> IF s.threw THEN SummaryViaMvp ELSE s.summary,
           media |-> (IF ~s.threw /\ Len(s.media) > 0 THEN s.media ELSE ImageItems(urls))
                       \o AudioItems(audioUrl) ]
    ELSE [ title |-> OrElse(s.title, UntitledArtifact),
           summary |-> IF s.summary # "" THEN s.summary ELSE SummaryMvp,
           media |-> s.media \o AudioItems(audioUrl) ]

\* the collection_id of the JSON payload
PayloadCollection(v, colParam, collectionId) ==
  IF v = "part000" THEN NoRef
  ELSE IF v = "part008a" THEN colParam
  ELSE collectionId

\* Math.random() is called only when the base is empty (a || b)
RandomDraws(title) == IF SlugBase(title) # <<>> THEN {<<>>} ELSE RandFracs

Structure ==
  /\ pc = "structure"
  /\ \E gen \in GenResponses :
       /\ hasKey \/ Unkeyed(gen.kind)
       /\ LET called == hasKey \/ ~SkipsUnkeyedCalls(variant)
              s == structureArtifact(variant, loc.text, loc.uploadedImages,
                                     loc.transcript, hasKey, gen)
              a == Assemble(variant, s, loc.text, loc.uploadedImages, loc.audioUrl)
          IN  /\ calls' = IF called THEN Append(calls, "generate") ELSE calls
              /\ IF s.threw /\ variant = "part008b"
                   THEN /\ Catch(MsgStructureFailed)
                        /\ loc' = loc
                   ELSE \E frac \in RandomDraws(a.title) :
                        /\ loc' = [loc EXCEPT
                             !.title = a.title, !.summary = a.summary,
                             !.media = a.media,
                             !.slug = toSlug(a.title, frac),
                             !.dataPayload =
                                [ title |-> a.title, summary |-> a.summary,
                                  media |-> a.media, transcript |-> loc.transcript,
                                  collection_id |->
                                    PayloadCollection(variant, loc.colParam,
                                                      loc.collectionId) ]]
                        /\ pc' = "insert"
                        /\ resp' = resp
  /\ UNCHANGED <<env, schema, artifacts, attempts>>

\* -------------------------------------------------------------- artifact writer

BaseColumns == {"slug", "data", "title", "summary", "owner_id"}

\* the columns of the first insert
FirstColumns(v, collectionId) ==
  IF v = "part000" THEN {"slug", "json"}
  ELSE IF v = "route" THEN BaseColumns \cup {"collection_id"}
  ELSE IF collectionId # NoRef THEN BaseColumns \cup {"collection_id"}
  ELSE BaseColumns

\* the columns of the second insert
RetryColumns(v, collectionId) ==
  IF v = "route" THEN FirstColumns(v, collectionId) \ {"collection_id"}
  ELSE BaseColumns

\* the columns of the third insert (route.ts): fullRow less title and summary
Retry2Columns(v, collectionId) ==
  FirstColumns(v, collectionId) \ {"title", "summary"}

\* the columns the insert asks back with .select(...)
FirstSelect(v) ==
  IF v \in NormalizerVariants THEN {"id", "slug", "collection_id"} ELSE {}

RetrySelect(v) ==
  IF v \in NormalizerVariants THEN {"id", "slug"} ELSE {}

\* whether the handler answers a 42703 of the first insert with a retry
RetriesOn42703(v, collectionId) ==
  IF v = "route" THEN TRUE
  ELSE IF v = "part008a" THEN collectionId # NoRef
  ELSE IF v = "part008b" THEN TRUE
  ELSE FALSE

\* The store on an insert of the columns cols, asked to return sel: error
\* 42703 when a column named is not in the schema; otherwise another error
\* (a constraint, a policy), or the row is stored, with the collection_id
\* sent or with null in its place.
InsertResults(cols, sel, collectionId) ==
  IF ~((cols \cup sel) \subseteq schema)
    THEN { [err |-> Err42703, stored |-> FALSE, collection_id |-> NoRef] }
    ELSE { [err |-> ErrOther, stored |-> FALSE, collection_id |-> NoRef] }
         \cup { [err |-> NoErr, stored |-> TRUE, collection_id |-> c] :
                  c \in IF "collection_id" \in cols THEN {collectionId, NoRef}
                        ELSE {NoRef} }

NextId == Len(artifacts) + 1

StoredRow(cols, colId) ==
  [ id |-> NextId, slug |-> loc.slug,
    title |-> IF "title" \in cols THEN loc.title ELSE <<>>,
    summary |-> IF "summary" \in cols THEN loc.summary ELSE Null,
    data |-> loc.dataPayload,
    owner_id |-> IF "owner_id" \in cols THEN loc.user ELSE Null,
    collection_id |-> colId ]

DoInsert(cols, o) ==
  /\ calls' = Append(calls, "insert")
  /\ attempts' = Append(attempts, cols)
  /\ artifacts' = IF o.stored THEN Append(artifacts, StoredRow(cols, o.collection_id))
                  ELSE artifacts

\* the 200 body of the handlers of part_008
FullResponse(inserted, finalCollectionId, collectionId, warning) ==
  [ status |-> 200,
    keys |-> {"id", "slug", "collection_id", "received_collection_param"}
               \cup (IF warning # Null THEN {"warning"} ELSE {}),
    id |-> inserted.id, slug |-> inserted.slug,
    collection_id |-> OrElse(finalCollectionId, collectionId),
    warning |-> warning, error |-> Null ]

\* after a successful insert: the follow-up update when a collection
\* identifier was resolved and the row came back without it, else the
\* response
Inserted(row) ==
  IF variant \in NormalizerVariants
    THEN /\ loc' = [loc EXCEPT !.inserted = row, !.insertErr = NoErr,
                               !.finalCollectionId = row.collection_id]
         /\ IF loc.collectionId # NoRef /\ row.collection_id = NoRef
              THEN /\ pc' = "update"
                   /\ resp' = resp
              ELSE /\ pc' = "done"
                   /\ resp' = FullResponse(row, row.collection_id,
                                           loc.collectionId, loc.ingestWarning)
    ELSE /\ loc' = [loc EXCEPT !.insertErr = NoErr]
         /\ pc' = "done"
         /\ resp' = SlugResponse(loc.slug)

\* InsertFailed with a fixed message in place of the error's own
InsertFailedGeneric(err) ==
  /\ loc' = [loc EXCEPT !.insertErr = err]
  /\ pc' = "done"
  /\ resp' = ErrorResponse(500, "Insert failed")

InsertFailed(err) ==
  /\ loc' = [loc EXCEPT !.insertErr = err]
  /\ pc' = "done"
  /\ resp' = ErrorResponse(500, err.message)

Insert ==
  /\ pc = "insert"
  /\ LET cols == FirstColumns(variant, loc.collectionId)
     IN  \E o \in InsertResults(cols, FirstSelect(variant), loc.collectionId) :
           /\ DoInsert(cols, o)
           /\ IF o.err.code = "42703" /\ RetriesOn42703(variant, loc.collectionId)
                THEN /\ loc' = [loc EXCEPT !.insertErr = o.err]
                     /\ pc' = "retry"
                     /\ resp' = resp
              ELSE IF o.err # NoErr
                THEN InsertFailed(o.err)
              ELSE Inserted([id |-> NextId, slug |-> loc.slug,
                             collection_id |-> o.collection_id])
  /\ UNCHANGED <<env, schema>>

RetryInsert ==
  /\ pc = "retry"
  /\ LET cols == RetryColumns(variant, loc.collectionId)
     IN  \E o \in InsertResults(cols, RetrySelect(variant), loc.collectionId) :
           /\ DoInsert(cols, o)
           /\ IF o.err.code = "42703" /\ variant = "route"
                THEN /\ loc' = [loc EXCEPT !.insertErr = o.err]
                     /\ pc' = "retry2"
                     /\ resp' = resp
              ELSE IF o.err # NoErr
                THEN InsertFailed(o.err)
              ELSE Inserted([id |-> NextId, slug |-> loc.slug,
                             collection_id |-> NoRef])
  /\ UNCHANGED <<env, schema>>

RetryInsert2 ==
  /\ pc = "retry2"
  /\ LET cols == Retry2Columns(variant, loc.collectionId)
     IN  \E o \in InsertResults(cols, {}, loc.collectionId) :
           /\ DoInsert(cols, o)
           /\ IF o.err # NoErr
                THEN InsertFailed(o.err)
                ELSE Inserted([id |-> NextId, slug |-> loc.slug,
                               collection_id |-> o.collection_id])
  /\ UNCHANGED <<env, schema>>

UpdateOutcomes == {"ok", "error", "throws"}

PatchThrewWarning(v) ==
  IF v = "part008a" THEN WarnPatchThrew ELSE WarnPatchException

\* WarnOr with the new warning dropped
WarnOrKeep(w0, w) == w0

\* ingestWarning || w
WarnOr(w0, w) == IF w0 # Null THEN w0 ELSE w

\* SetCollection that loses the row
SetCollectionDropsRow(table, id, collectionId) == <<>>

\* SetCollection with the row chosen by its slug: .eq("slug", inserted.slug)
SetCollectionBySlug(table, id, collectionId) ==
  [i \in DOMAIN table |->
     IF \E j \in DOMAIN table : table[j].id = id /\ table[j].slug = table[i].slug
       THEN [table[i] EXCEPT !.collection_id = collectionId]
       ELSE table[i]]

\* .update({ collection_id }).eq("id", id) on the table
SetCollection(table, id, collectionId) ==
  [i \in DOMAIN table |->
     IF table[i].id = id THEN [table[i] EXCEPT !.collection_id = collectionId]
     ELSE table[i]]

UpdateCollection ==
  /\ pc = "update"
  /\ calls' = Append(calls, "update")
  /\ \E o \in UpdateOutcomes :
       /\ o = "ok" => "collection_id" \in schema
       /\ IF o = "ok"
            THEN /\ artifacts' = SetCollection(artifacts, loc.inserted.id, loc.collectionId)
                 /\ loc' = [loc EXCEPT !.finalCollectionId = loc.collectionId]
                 /\ resp' = FullResponse(loc.inserted, loc.collectionId,
                                         loc.collectionId, loc.ingestWarning)
            ELSE LET w == WarnOr(loc.ingestWarning,
                                 IF o = "error" THEN WarnPatchFailed
                                 ELSE PatchThrewWarning(variant))
                 IN  /\ artifacts' = artifacts
                     /\ loc' = [loc EXCEPT !.ingestWarning = w]
                     /\ resp' = FullResponse(loc.inserted, loc.finalCollectionId,
                                             loc.collectionId, w)
  /\ pc' = "done"
  /\ UNCHANGED <<env, schema, attempts>>

\* a migration adds the collection_id column while the handler is writing
AddCollectionColumn ==
  /\ pc \in {"insert", "retry", "retry2", "update"}
  /\ "collection_id" \notin schema
  /\ schema' = schema \cup {"collection_id"}
  /\ UNCHANGED <<env, artifacts, pc, loc, resp, calls, attempts>>

Next ==
  \/ GetUser
  \/ ParseRequest
  \/ ResolveSlug
  \/ UploadImage
  \/ UploadAudio
  \/ Transcribe
  \/ Structure
  \/ Insert
  \/ RetryInsert
  \/ RetryInsert2
  \/ UpdateCollection
  \/ AddCollectionColumn

Spec == Init /\ [][Next]_vars

\* ------------------------------------------------- toSlug as a function

SlugAlphabet == {"a", "Z", "7", "-", " ", "!"}

\* the titles toSlug is applied to: every text of at most MaxShortTitle
\* characters of SlugAlphabet, and texts around SlugMaxLen characters with
\* and without a separator near the cut
SlugTitles ==
  SeqsUpTo(SlugAlphabet, MaxShortTitle)
    \cup { Rep("a", k) \o sep \o <<"b">> :
             k \in (SlugMaxLen - 2)..(SlugMaxLen + 1), sep \in {<<>>, <<" ">>, <<"-","-">>} }
    \cup { UntitledArtifact, GenTitleShort, GenTitleLong }

SlugInit ==
  /\ variant = "route"
  /\ hasKey = TRUE
  /\ schema = ArtifactColumns
  /\ collections = CollectionRows
  /\ artifacts = <<>>
  /\ req \in { r \in Requests : r.nImages = 0 /\ ~r.audio /\ r.colField = "none"
                                 /\ r.carrier = "form" /\ r.text = <<>> }
  /\ pc = "toSlug"
  /\ \E t \in SlugTitles : loc = [InitLoc EXCEPT !.title = t]
  /\ resp = NoResp
  /\ calls = <<>>
  /\ attempts = <<>>
  /\ profiles = {}

ApplyToSlug ==
  /\ pc = "toSlug"
  /\ \E frac \in RandomDraws(loc.title) :
       loc' = [loc EXCEPT !.slug = toSlug(loc.title, frac)]
  /\ pc' = "slugged"
  /\ UNCHANGED <<env, schema, artifacts, resp, calls, attempts>>

SlugNext == ApplyToSlug

SlugSpec == SlugInit /\ [][SlugNext]_vars

\* ------------------------------------- POST /api/collections/create

\* `collection-${Math.random().toString(36).slice(2, 8)}`
CollectionPrefix == <<"c","o","l","l","e","c","t","i","o","n","-">>

toSlugCollection(s, frac) ==
  LET base == SlugBase(s)
  IN  IF base # <<>> THEN base
      ELSE CollectionPrefix \o Slice(RandomToString36(frac), RandSliceFrom, RandSliceTo)

\* z.coerce.boolean(): Boolean(value), which for a string is whether it is
\* non-empty
CoerceBoolean(s) == s # ""

\* String(form.get("is_public") || "false"); an absent field is null
IsPublicText(v) == IF v \in {Null, ""} THEN "false" ELSE v

MsgCreateUnauthorized == "Unauthorized. Please sign in to create a collection."
MsgExpectedMultipart == "Expected multipart/form-data"
MsgTitleTooShort == "title: String must contain at least 1 character(s)"

CollectionColumns ==
  {"id", "title", "description", "is_public", "owner_id", "cover_url", "slug"}

\* the schemas of the collections table a deployment may have
CollectionSchemas ==
  { CollectionColumns,
    CollectionColumns \ {"cover_url"},
    CollectionColumns \ {"cover_url", "is_public"},
    CollectionColumns \ {"slug"} }

\* the submissions of the collection form and of other clients
CreateRequests ==
  [ carrier : {"form", "json"},
    title : {<<>>, <<" ">>, <<"!">>, TextShort},
    description : {"", "Family things"},
    is_public : {Null, "false", "true"},
    slug : {<<>>, SlugFamily},
    cover : BOOLEAN ]

CreateInitLoc ==
  [ user |-> Null, title |-> <<>>, description |-> "", is_public |-> FALSE,
    slug |-> <<>>, cover_url |-> Null, error |-> NoErr ]

CreateInit ==
  /\ variant = "create"
  /\ hasKey = TRUE
  /\ schema \in CollectionSchemas
  /\ collections = {}
  /\ artifacts = <<>>
  /\ req \in CreateRequests
  /\ pc = "c_auth"
  /\ loc = CreateInitLoc
  /\ resp = NoResp
  /\ calls = <<>>
  /\ attempts = <<>>
  /\ profiles = {}

CreateGetUser ==
  /\ pc = "c_auth"
  /\ calls' = Append(calls, "getUser")
  /\ \E o \in AuthOutcomes :
       IF o = "ok"
         THEN /\ loc' = [loc EXCEPT !.user = "user-1"]
              /\ pc' = "c_parse"
              /\ resp' = resp
         ELSE /\ resp' = ErrorResponse(401, MsgCreateUnauthorized)
              /\ pc' = "done"
              /\ loc' = loc
  /\ UNCHANGED <<env, schema, artifacts, attempts>>

\* the content-type test, BodySchema.safeParse and the slug
CreateParse ==
  /\ pc = "c_parse"
  /\ IF req.carrier # "form"
       THEN /\ resp' = ErrorResponse(400, MsgExpectedMultipart)
            /\ pc' = "done"
            /\ loc' = loc
     ELSE IF Len(req.title) < 1
       THEN /\ resp' = ErrorResponse(400, MsgTitleTooShort)
            /\ pc' = "done"
            /\ loc' = loc
     ELSE \E frac \in RandomDraws(req.title) :
            /\ loc' = [loc EXCEPT
                 !.title = req.title,
                 !.description = req.description,
                 !.is_public = CoerceBoolean(IsPublicText(req.is_public)),
                 !.slug = OrElse(Trim(req.slug), toSlugCollection(req.title, frac))]
            /\ pc' = IF req.cover THEN "c_cover" ELSE "c_insert"
            /\ resp' = resp
  /\ UNCHANGED <<env, schema, artifacts, calls, attempts>>

CreateUploadCover ==
  /\ pc = "c_cover"
  /\ calls' = Append(calls, "uploadImage")
  /\ \E ok \in BOOLEAN :
       IF ok
         THEN /\ loc' = [loc EXCEPT !.cover_url = ImageUrl(1)]
              /\ pc' = "c_insert"
              /\ resp' = resp
         ELSE /\ Catch(MsgUploadFailed)
              /\ loc' = loc
  /\ UNCHANGED <<env, schema, artifacts, attempts>>

\* fullRow, withoutSlugCover and minimal
CreateFullColumns ==
  {"title", "description", "is_public", "owner_id", "cover_url", "slug"}

CreateRetryColumns == CreateFullColumns \ {"slug", "cover_url"}

CreateMinimalColumns == CreateRetryColumns \ {"is_public"}

\* .select("id, slug")
CreateSelect == {"id", "slug"}

\* the store on an insert into collections: 42703 when a column named is not
\* in the schema, otherwise another error or the row is stored
CreateInsertResults(cols) ==
  IF ~((cols \cup CreateSelect) \subseteq schema)
    THEN { [err |-> Err42703, stored |-> FALSE] }
    ELSE { [err |-> ErrOther, stored |-> FALSE], [err |-> NoErr, stored |-> TRUE] }

\* the row stored; a column the insert did not name takes the table's
\* default, which for is_public is either value
CollectionRow(cols, default) ==
  [ id |-> Cardinality(collections) + 1,
    title |-> loc.title,
    description |-> IF loc.description # "" THEN loc.description ELSE Null,
    is_public |-> IF "is_public" \in cols THEN loc.is_public ELSE default,
    is_public_sent |-> "is_public" \in cols,
    owner_id |-> loc.user,
    cover_url |-> IF "cover_url" \in cols THEN loc.cover_url ELSE Null,
    slug |-> IF "slug" \in cols THEN loc.slug ELSE <<>> ]

\* CreatedResponse without the id
CreatedResponseSlugOnly(row) ==
  [NoResp EXCEPT !.status = 200, !.keys = {"slug"},
                 !.slug = OrElse(row.slug, loc.slug)]

\* NextResponse.json({ id: data?.id, slug: data?.slug ?? slug }, { status: 200 })
CreatedResponse(row) ==
  [NoResp EXCEPT !.status = 200, !.keys = {"id", "slug"}, !.id = row.id,
                 !.slug = OrElse(row.slug, loc.slug)]

\* one tryInsert of the row with the columns cols; a 42703 leads to the
\* await onMissing
TryInsertCollection(cols, onMissing) ==
  /\ calls' = Append(calls, "insert")
  /\ attempts' = Append(attempts, cols)
  /\ \E o \in CreateInsertResults(cols), default \in BOOLEAN :
       /\ loc' = [loc EXCEPT !.error = o.err]
       /\ IF o.stored
            THEN /\ collections' = collections \cup {CollectionRow(cols, default)}
                 /\ resp' = CreatedResponse(CollectionRow(cols, default))
                 /\ pc' = "done"
            ELSE /\ collections' = collections
                 /\ IF o.err.code = "42703" /\ onMissing # "done"
                      THEN /\ pc' = onMissing
                           /\ resp' = resp
                      ELSE /\ pc' = "done"
                           /\ resp' = ErrorResponse(500, o.err.message)
  /\ UNCHANGED <<variant, hasKey, req, schema, artifacts, profiles>>

CreateInsert ==
  /\ pc = "c_insert"
  /\ TryInsertCollection(CreateFullColumns, "c_retry")

CreateRetry ==
  /\ pc = "c_retry"
  /\ TryInsertCollection(CreateRetryColumns, "c_retry2")

CreateRetry2 ==
  /\ pc = "c_retry2"
  /\ TryInsertCollection(CreateMinimalColumns, "done")

CreateNext ==
  \/ CreateGetUser
  \/ CreateParse
  \/ CreateUploadCover
  \/ CreateInsert
  \/ CreateRetry
  \/ CreateRetry2

CreateSpec == CreateInit /\ [][CreateNext]_vars

\* ------------------------------------------------------------------ claims

LastCall == IF calls = <<>> THEN Null ELSE calls[Len(calls)]
Called(c) == \E i \in DOMAIN calls : calls[i] = c
MediaSrcs(m) == { m[i].src : i \in DOMAIN m }
ImageSrcs(m) == { m[i].src : i \in { k \in DOMAIN m : m[k].type = "image" } }
Finished == pc = "done"

\* C1: every image URL a successful upload returned is the src of an image
\* entry of the media of every artifact the request persisted, in all four
\* handlers and whatever the generation service did.
C1_UploadedImagesInMedia ==
  \A i \in DOMAIN artifacts :
    SeqRange(loc.uploadedImages) \subseteq ImageSrcs(artifacts[i].data.media)

\* an artifact persisted after two successful image uploads from a valid
\* generation response whose media began with a URL that was not uploaded
C1_Witness ==
  /\ Len(artifacts) = 1
  /\ Len(loc.uploadedImages) = 2
  /\ loc.title = GenTitleShort
  /\ Len(artifacts[1].data.media) >= 3
  /\ artifacts[1].data.media[1].src = OtherUrl

\* C2: an authenticated, well-formed (multipart) request gets a response
\* other than 200 only when an artifact insert failed.
C2_OnlyInsertFailureFails ==
  (Finished /\ IsMultipart(req) /\ resp.status # 200
     /\ (variant \in AuthVariants => loc.user # Null))
    => loc.insertErr # NoErr

SessionRefused == variant \in AuthVariants /\ pc # "auth" /\ loc.user = Null

NoSideEffects ==
  /\ calls = <<"getUser">>
  /\ artifacts = <<>>
  /\ attempts = <<>>

\* C3 as stated: a refused session check gives 401 with the message
\* "Unauthorized...", and nothing but the session check was called.
C3_UnauthorizedMessage ==
  SessionRefused =>
    /\ resp.status = 401
    /\ resp.keys = {"error"}
    /\ resp.error = MsgUnauthorized
    /\ NoSideEffects

\* C3 amended: a refused session check gives 401 with an error message,
\* "Unauthorized. Please sign in to create artifacts." in route.ts and the
\* first handler of part_008 and "Not authenticated" in the second, and
\* nothing but the session check was called: no upload, no transcription, no
\* generation, no insert and no update.
C3_RefusedSessionWritesNothing ==
  SessionRefused =>
    /\ Finished
    /\ resp.status = 401
    /\ resp.keys = {"error"}
    /\ resp.error = IF variant = "part008b" THEN MsgNotAuthenticated ELSE MsgUnauthorized
    /\ NoSideEffects

C3_Witness == SessionRefused /\ Finished /\ variant = "part008a" /\ req.nImages = 2

SlugChars == SlugAlnum \cup {"-"}

SlugWellFormed(sl) ==
  /\ sl # <<>>
  /\ SeqRange(sl) \subseteq SlugChars
  /\ Head(sl) # "-"
  /\ Last(sl) # "-"
  /\ Len(sl) <= SlugMaxLen

\* C4: the slug of every title is non-empty, made of a-z, 0-9 and hyphen,
\* neither begins nor ends with a hyphen, and has at most 60 characters.
C4_SlugWellFormed == pc = "slugged" => SlugWellFormed(loc.slug)

\* C5: the generation call never ends the request: after it the handler is
\* at the insert with a title, a summary and the media.
C5_StructurerNeverThrows ==
  LastCall = "generate" => (pc = "insert" /\ loc.title # <<>> /\ resp = NoResp)

\* C6: a failed upload never ends the request: no response follows an
\* upload call directly, and every image file of the submission is tried.
C6_UploadFailureSkipsFile ==
  /\ LastCall \in {"uploadImage", "uploadAudio"} => ~Finished
  /\ (Finished /\ resp.status = 200) => loc.imgIdx > ImageCount(variant, req)

SlugReference ==
  /\ variant \in NormalizerVariants
  /\ loc.colParam # NoRef
  /\ ~uuidRegexTest(loc.colParam)

\* C7: with a reference that is not a UUID the lookup never ends the
\* request, and a 200 response either follows a resolution to the id of the
\* collection with that slug, or carries a null collection_id and a warning
\* for the one artifact persisted.
C7_SlugResolvedOrWarned ==
  SlugReference =>
    /\ LastCall = "lookup" => ~Finished
    /\ (Finished /\ resp.status = 200) =>
         \/ /\ loc.collectionId # NoRef
            /\ \E c \in collections : c.slug = loc.colParam /\ c.id = loc.collectionId
         \/ /\ loc.collectionId = NoRef
            /\ resp.collection_id = NoRef
            /\ Len(artifacts) = 1
            /\ "warning" \in resp.keys

\* C8: a reference that matches uuidRegex is the collection identifier as it
\* is, the collections table is not queried, and the insert sends it.
C8_UuidUsedWithoutLookup ==
  (variant \in NormalizerVariants /\ pc \notin {"auth", "parse"}
     /\ loc.colParam # NoRef /\ uuidRegexTest(loc.colParam)) =>
    /\ loc.collectionId = loc.colParam
    /\ ~Called("lookup")
    /\ \A i \in DOMAIN artifacts : artifacts[i].collection_id \in {loc.colParam, NoRef}
    /\ (Finished /\ resp.status = 200) => resp.collection_id = loc.colParam

C8_Witness ==
  /\ variant = "part008b" /\ Finished /\ resp.status = 200
  /\ loc.colParam = UuidA /\ Len(artifacts) = 1
  /\ artifacts[1].collection_id = UuidA

\* C9: a 200 response after a first insert that failed with 42703 while a
\* collection identifier was set follows a retry without collection_id and a
\* follow-up update, and carries that identifier as collection_id.
C9_RetryThenPatch ==
  (variant # "part000" /\ Finished /\ resp.status = 200
     /\ Len(attempts) >= 2 /\ loc.collectionId # NoRef) =>
    /\ attempts[2] = attempts[1] \ {"collection_id"}
    /\ Called("update")
    /\ "collection_id" \in resp.keys
    /\ resp.collection_id = loc.collectionId

\* C10: no 500 response follows a single insert attempt that failed with
\* 42703: a retry comes first.
C10_RetryBefore500 ==
  (variant # "part000" /\ Finished /\ loc.insertErr.code = "42703")
    => Len(attempts) >= 2

\* the error the store gives for the last insert attempt, read off the
\* schema: 42703 when the attempt named a column the table lacks
LastAttemptMissesColumn ==
  LET n == Len(attempts)
      sel == IF n = 1 THEN FirstSelect(variant)
             ELSE IF n = 2 THEN RetrySelect(variant) ELSE {}
  IN  ~((attempts[n] \cup sel) \subseteq schema)

\* C11: a request makes at most three insert attempts, and when every one
\* of them failed the response is 500 with the message of the error of the
\* last attempt.
C11_BoundedAttemptsLastError ==
  /\ Len(attempts) <= 3
  /\ (Finished /\ Len(attempts) >= 1 /\ artifacts = <<>>) =>
       /\ resp.status = 500
       /\ resp.keys = {"error"}
       /\ loc.insertErr # NoErr
       /\ resp.error = loc.insertErr.message
       /\ resp.error = IF LastAttemptMissesColumn THEN Err42703.message
                       ELSE ErrOther.message

\* three attempts, the first two refused for a missing column and the third
\* for another reason
C11_Witness ==
  /\ Finished /\ Len(attempts) = 3 /\ artifacts = <<>>
  /\ resp.status = 500 /\ resp.error = ErrOther.message

CountCalls(c) == Cardinality({ i \in DOMAIN calls : calls[i] = c })

\* C12: the collection_id update is issued at most once, only after a
\* successful insert whose row came back with a null collection_id while a
\* collection identifier was resolved; the response that follows is 200 with
\* the id and slug of the artifact, and carries a warning when the update
\* did not set the column.
C12_UpdateOnceAfterNullInsert ==
  /\ CountCalls("update") <= 1
  /\ Called("update") =>
       /\ variant \in NormalizerVariants
       /\ loc.collectionId # NoRef
       /\ loc.inserted.collection_id = NoRef
       /\ Len(artifacts) = 1
       /\ Finished
       /\ resp.status = 200
       /\ {"id", "slug"} \subseteq resp.keys
       /\ resp.id = artifacts[1].id
       /\ resp.slug = artifacts[1].slug
       /\ artifacts[1].collection_id = NoRef =>
            ("warning" \in resp.keys /\ resp.warning # Null)

\* the update threw after the retry stored the row without the column
C12_Witness ==
  /\ Called("update") /\ Finished /\ Len(attempts) = 2
  /\ artifacts[1].collection_id = NoRef
  /\ resp.warning = WarnPatchException

\* the response is a 200 with a slug, or a 401 or 500 with an error message
ResponseWellFormed ==
  \/ /\ resp.status = 200
     /\ "slug" \in resp.keys
     /\ resp.slug # <<>>
     /\ "error" \notin resp.keys
  \/ /\ resp.status \in {401, 500}
     /\ resp.keys = {"error"}
     /\ resp.error \notin {Null, ""}

\* the place of each await in the order of the handler's text
PcRank(p) ==
  CASE p = "auth" -> 0
    [] p = "parse" -> 1
    [] p = "resolve" -> 2
    [] p = "images" -> 3
    [] p = "audio" -> 4
    [] p = "transcribe" -> 5
    [] p = "structure" -> 6
    [] p = "insert" -> 7
    [] p = "retry" -> 8
    [] p = "retry2" -> 9
    [] p = "update" -> 10
    [] p = "done" -> 11

\* a step of the handler goes to a later await, or to the next image of the
\* upload loop
MovesForward ==
  \/ PcRank(pc') > PcRank(pc)
  \/ (pc' = "images" /\ pc = "images" /\ loc'.imgIdx > loc.imgIdx)

\* Before its response the handler always has a step to take: the action of
\* the await it is at is enabled. Structure is enabled when the generation
\* service has an answer for the request and a random draw exists; the rest
\* of it is a total function of them.
NeverStuck ==
  /\ PcRank(pc) \in 0..11
  /\ pc = "auth" => ENABLED GetUser
  /\ pc = "parse" => ENABLED ParseRequest
  /\ pc = "resolve" => ENABLED ResolveSlug
  /\ pc = "images" => ENABLED UploadImage
  /\ pc = "audio" => ENABLED UploadAudio
  /\ pc = "transcribe" => ENABLED Transcribe
  /\ pc = "structure" =>
       /\ \E gen \in GenResponses : hasKey \/ Unkeyed(gen.kind)
       /\ RandomDraws(loc.text) # {}
  /\ pc = "insert" => ENABLED Insert
  /\ pc = "retry" => ENABLED RetryInsert
  /\ pc = "retry2" => ENABLED RetryInsert2
  /\ pc = "update" => ENABLED UpdateCollection

ResponseKept == resp # NoResp => resp' = resp

\* C13: every request ends, and ends with one response: status 200 with the
\* slug of the artifact, or status 401 or 500 with a non-empty error message.
\* The handler is never stuck before its response, each of its steps moves
\* it forward (to a later await, or to the next image of the upload loop,
\* which is bounded by the number of files), and a response once returned is
\* never replaced.
C13_ExactlyOneResponse ==
  /\ [](Finished <=> resp # NoResp)
  /\ [](Finished => ResponseWellFormed)
  /\ []NeverStuck
  /\ [](pc = "images" => loc.imgIdx <= ImageCount(variant, req))
  /\ [][MovesForward]_<<pc, loc, resp, calls, artifacts, attempts>>
  /\ [][ResponseKept]_vars

\* a request that ended in the catch of the handler
C13_Witness ==
  /\ Finished /\ resp.status = 500 /\ resp.error = MsgUploadFailed
  /\ variant = "route" /\ attempts = <<>>

\* a collection reference that resolved to no collection, or an update that
\* did not set the column
DegradationRecorded ==
  \/ loc.colParam # NoRef /\ loc.collectionId = NoRef
  \/ /\ Called("update")
     /\ \E i \in DOMAIN artifacts : artifacts[i].collection_id # loc.collectionId

\* C14: every 200 response of the handlers the claim names holds the fields
\* id, slug and collection_id, and holds warning only when a degradation was
\* recorded.
C14_ResponseFields ==
  (Finished /\ resp.status = 200 /\ variant # "part000") =>
    /\ {"id", "slug", "collection_id"} \subseteq resp.keys
    /\ "warning" \in resp.keys => DegradationRecorded

ImagesOf(m) == SelectSeq(m, LAMBDA e : e.type = "image")

\* the title the claim gives for an unavailable generation service
ExpectedFallbackTitle ==
  LET notes == Trim(loc.text)
      spoken == Trim(loc.transcript.text)
  IN  IF notes # <<>> THEN Slice(notes, 0, FallbackTitleLen)
      ELSE IF spoken # <<>> THEN Slice(spoken, 0, FallbackTitleLen)
      ELSE UntitledArtifact

\* the structure step is over and the request went on
Structured == PcRank(pc) > PcRank("structure") /\ loc.dataPayload # NoPayload

\* C15: when the generation service is unavailable (no API key), the title
\* is the first 60 characters of the trimmed notes, or of the trimmed
\* transcript, or "Untitled Artifact"; the summary tells whether a transcript
\* was used; the image media are the uploaded URLs in upload order.
C15_FallbackValues ==
  (~hasKey /\ Structured) =>
    /\ loc.title = ExpectedFallbackTitle
    /\ loc.summary = IF loc.transcript.present THEN SummaryTranscript ELSE SummaryNotes
    /\ ImagesOf(loc.media) = [i \in DOMAIN loc.uploadedImages |->
                                [type |-> "image", src |-> loc.uploadedImages[i], alt |-> Null]]

\* C16: a transcription call never ends the request and never sets a
\* response: after it the handler is at the structure step; every failure of
\* the call, and a missing API key, leave the transcript absent.
C16_TranscriptionNeverFatal ==
  /\ LastCall = "transcribe" => (pc = "structure" /\ resp = NoResp)
  /\ \A t \in TranscribeResponses :
       t.kind # "text" => transcribeAudio(t) = NoTranscript
  /\ (~hasKey /\ PcRank(pc) > PcRank("transcribe")) => loc.transcript = NoTranscript
  /\ (pc = "transcribe" /\ ~hasKey /\ SkipsUnkeyedCalls(variant)) => ENABLED Transcribe

\* the transcription was asked with a key and failed
C16_Witness ==
  /\ LastCall = "transcribe" /\ hasKey /\ loc.transcript = NoTranscript
  /\ variant = "part008b" /\ loc.audioUrl = AudioUrl

\* C17: every artifact persisted while a collection identifier was resolved
\* holds that identifier as collection_id inside its JSON payload.
C17_JsonMirrorIsResolvedId ==
  (variant \in NormalizerVariants /\ loc.collectionId # NoRef) =>
    \A i \in DOMAIN artifacts : artifacts[i].data.collection_id = loc.collectionId

\* the row without its collection_id
LessCollection(row) == [row EXCEPT !.collection_id = NoRef]

\* once a row is stored, no row is added or removed, and a later write
\* changes nothing but collection_id, by the one update
RowWrittenOnce ==
  artifacts # <<>> =>
    /\ Len(artifacts') = Len(artifacts)
    /\ \A i \in DOMAIN artifacts :
         LessCollection(artifacts'[i]) = LessCollection(artifacts[i])
    /\ artifacts' # artifacts =>
         (~Called("update") /\ calls' = Append(calls, "update"))

\* C18: a request persists at most one row and a 200 response follows
\* exactly one; after the insert the handler writes that row at most once,
\* changing only its collection_id, and never deletes it.
C18_OneRowOnePatch ==
  /\ [](Len(artifacts) <= 1)
  /\ []((Finished /\ resp.status = 200) => Len(artifacts) = 1)
  /\ []((Finished /\ resp.status # 200) => artifacts = <<>>)
  /\ [][RowWrittenOnce]_vars

\* the row stored by the retry and then patched with the identifier
C18_Witness ==
  /\ Finished /\ resp.status = 200 /\ variant = "part008b"
  /\ Len(attempts) = 2 /\ Called("update")
  /\ artifacts[1].collection_id = UuidA

NothingInserted == collections = {} /\ attempts = <<>>

\* C19: collection creation answers 401 with no insert when there is no
\* user, 400 with no insert when the body is not multipart or the title is
\* empty, and 200 with the id and the slug of the row when an insert
\* succeeded.
C19_CreateStatuses ==
  /\ (pc # "c_auth" /\ loc.user = Null) =>
       (Finished /\ resp.status = 401 /\ resp.keys = {"error"} /\ NothingInserted)
  /\ (pc \notin {"c_auth", "c_parse"} /\ loc.user # Null
        /\ (req.carrier # "form" \/ req.title = <<>>)) =>
       (Finished /\ resp.status = 400 /\ resp.keys = {"error"} /\ NothingInserted)
  /\ collections # {} =>
       /\ Finished
       /\ resp.status = 200
       /\ resp.keys = {"id", "slug"}
       /\ resp.slug # <<>>
       /\ collections = { c \in collections : c.id = resp.id }
  /\ (Finished /\ resp.status = 200) => Cardinality(collections) = 1

\* a collection created by the third insert, of the minimal row
C19_Witness ==
  /\ Finished /\ resp.status = 200 /\ Len(attempts) = 3
  /\ \E c \in collections : c.id = resp.id /\ c.slug = <<>> /\ resp.slug = loc.slug

\* C20: the is_public of the row the insert named it in is the boolean the
\* client submitted: true for "true", false for "false" or no field.
C20_IsPublicAsSubmitted ==
  \A c \in collections :
    c.is_public_sent => (c.is_public = (req.is_public = "true"))

\* C21: a collection reference sent in a form under collectionId,
\* collection_id or collection alone is the collection reference the handler
\* works with.
C21_AnyAliasAccepted ==
  (variant \in AuthVariants /\ loc.user # Null /\ PcRank(pc) > PcRank("parse")
     /\ req.carrier = "form" /\ req.colField # "none") =>
    loc.colParam = req.colValue

\* C22: the slug of a title with no letter and no digit is "artifact-"
\* followed by exactly six characters of 0-9 and a-z, whatever the random
\* source returns.
C22_RandomSlugSixChars ==
  (pc = "slugged" /\ SlugBase(loc.title) = <<>>) =>
    /\ Len(loc.slug) = Len(ArtifactPrefix) + (RandSliceTo - RandSliceFrom)
    /\ SubSeq(loc.slug, 1, Len(ArtifactPrefix)) = ArtifactPrefix
    /\ \A i \in (Len(ArtifactPrefix) + 1)..Len(loc.slug) : loc.slug[i] \in SlugAlnum

\* the title length the shape check of the handler allows (0: any)
MaxLenOf(v) == IF v = "part008b" THEN GenTitleMaxLen ELSE 0

\* C24: for every generation response that passes the shape check, the
\* structurer returns the generated media followed by the uploaded URLs that
\* are not among them, in upload order, each once.
C24_AppendsOnlyAbsentUrls ==
  (pc = "structure" /\ hasKey) =>
    \A gen \in GenResponses :
      Validated(gen, MaxLenOf(variant)) =>
        LET s == structureArtifact(variant, loc.text, loc.uploadedImages,
                                   loc.transcript, hasKey, gen)
            present == { gen.json.media[i].src : i \in DOMAIN gen.json.media }
            absent == SelectSeq(loc.uploadedImages, LAMBDA u : u \notin present)
        IN  /\ ~s.threw
            /\ s.media = gen.json.media \o
                 [i \in DOMAIN absent |-> [type |-> "image", src |-> absent[i], alt |-> Null]]

\* C25: a generation response that does not pass the strict shape check (a
\* title of 1 to 120 characters, a non-empty summary, valid media entries) is
\* never used: the structurer returns the fallback object.
C25_OnlyValidatedOutputUsed ==
  (pc = "structure" /\ hasKey /\ variant \in AuthVariants) =>
    \A gen \in GenResponses :
      ~Validated(gen, GenTitleMaxLen) =>
        structureArtifact(variant, loc.text, loc.uploadedImages, loc.transcript,
                          hasKey, gen)
          = Fallback(loc.text, loc.uploadedImages, loc.transcript)

\* C26: every insert attempt after the first sends a subset of the columns
\* of the attempt before it: a column once removed is never sent again.
C26_ColumnSetsShrink ==
  \A i \in 2..Len(attempts) : attempts[i] \subseteq attempts[i - 1]

\* the place of each outgoing call in the handler's text
CallRank(c) ==
  CASE c = "getUser" -> 1
    [] c = "lookup" -> 2
    [] c = "uploadImage" -> 3
    [] c = "uploadAudio" -> 4
    [] c = "transcribe" -> 5
    [] c = "generate" -> 6
    [] c = "insert" -> 7
    [] c = "update" -> 8

\* C27: the calls of one request of the second handler follow the order
\* session check, collection lookup, image uploads (in submission order),
\* audio upload, transcription (only after an audio upload), generation, slug
\* derivation, insert attempts, collection_id update, response; each of the
\* single steps happens at most once, none is skipped on the way to a 200,
\* and the response comes last.
C27_StepsInOrder ==
  variant = "part008b" =>
    /\ \A i, j \in DOMAIN calls : i < j => CallRank(calls[i]) <= CallRank(calls[j])
    /\ \A c \in {"getUser", "lookup", "uploadAudio", "transcribe", "generate", "update"} :
         CountCalls(c) <= 1
    /\ CountCalls("uploadImage") <= req.nImages
    /\ loc.uploadedImages = [i \in 1..Len(loc.uploadedImages) |-> ImageUrl(i)]
    /\ Called("transcribe") => (req.audio /\ Called("uploadAudio"))
    /\ loc.slug # <<>> => (Called("generate") /\ PcRank(pc) > PcRank("structure"))
    /\ Called("insert") => loc.slug # <<>>
    /\ (resp # NoResp) <=> Finished
    /\ (Finished /\ resp.status = 200) =>
         /\ calls[1] = "getUser"
         /\ (loc.colParam # NoRef /\ ~uuidRegexTest(loc.colParam)) <=> Called("lookup")
         /\ CountCalls("uploadImage") = (IF IsMultipart(req) THEN req.nImages ELSE 0)
         /\ (IsMultipart(req) /\ req.audio) <=> Called("uploadAudio")
         /\ Called("uploadAudio") <=> Called("transcribe")
         /\ Called("generate") /\ Called("insert")

C27_Witness ==
  /\ variant = "part008b" /\ Finished /\ resp.status = 200
  /\ Called("lookup") /\ CountCalls("uploadImage") = 2 /\ Called("transcribe")
  /\ Called("update")

\* the audio entry the claim expects last in the media
ExpectedAudio == IF loc.audioUrl # Null THEN <<AudioItem(loc.audioUrl)>> ELSE <<>>

\* C28: the media the handler assembles are the generated image entries the
\* structurer used, in generation order, then image entries of uploaded URLs
\* in upload order, then the audio entry when an audio upload returned a URL;
\* every persisted row holds these media, with one audio entry, last, exactly
\* when an audio file was submitted and its upload succeeded.
C28_MediaOrder ==
  /\ pc = "structure" =>
       \A gen \in GenResponses :
         (hasKey \/ Unkeyed(gen.kind)) =>
           LET s == structureArtifact(variant, loc.text, loc.uploadedImages,
                                      loc.transcript, hasKey, gen)
               a == Assemble(variant, s, loc.text, loc.uploadedImages, loc.audioUrl)
               generated == IF hasKey /\ ~s.threw /\ Validated(gen, MaxLenOf(variant))
                              THEN gen.json.media ELSE <<>>
           IN  \E keep \in SUBSET SeqRange(loc.uploadedImages) :
                 a.media = generated
                             \o ImageItems(SelectSeq2(loc.uploadedImages, keep))
                             \o ExpectedAudio
  /\ \A i \in DOMAIN artifacts :
       LET m == artifacts[i].data.media
       IN  /\ m = loc.media
           /\ m = ImagesOf(m) \o ExpectedAudio
           /\ loc.audioUrl # Null => (req.audio /\ Called("uploadAudio"))
           /\ (variant # "part000" /\ IsMultipart(req) /\ req.audio) => loc.audioUrl # Null

\* a row persisted with a generated entry, an appended upload and the audio
\* entry, in this order
C28_Witness ==
  /\ Len(artifacts) = 1
  /\ Len(artifacts[1].data.media) = 3
  /\ artifacts[1].data.media[1].src = OtherUrl
  /\ artifacts[1].data.media[2].src = ImageUrl(1)
  /\ artifacts[1].data.media[3].type = "audio"

\* ------------------------------------------- GET /auth/callback (profiles)

\* for (let i = 0; i < 10; i++)
MaxCandidates == 10

Users == {"user-1", "user-2"}

\* the base names the sessions carry: two that differ in case only, and one
\* with no character of [a-z0-9._-]
DesiredBases == { <<"a","l">>, <<"A","l">>, <<"!">> }

UsernameChars == Lower \cup Digits \cup {".", "_", "-"}

UserPrefix == <<"u","s","e","r","_">>

\* s.toLowerCase().replace(/[^a-z0-9._-]+/g, "") || `user_${...slice(2, 8)}`
sanitizeUsername(s, frac) ==
  LET cleaned == SelectSeq(ToLowerCase(s), LAMBDA c : c \in UsernameChars)
  IN  IF cleaned # <<>> THEN cleaned
      ELSE UserPrefix \o Slice(RandomToString36(frac), RandSliceFrom, RandSliceTo)

\* the decimal text of a number below 100
NumText(n) ==
  IF n < 10 THEN <<DigitSeq[n + 1]>>
  ELSE <<DigitSeq[(n \div 10) + 1], DigitSeq[(n % 10) + 1]>>

\* `${candidate}-${suffix}`
NextCandidate(candidate, suffix) == candidate \o <<"-">> \o NumText(suffix)

\* `${candidate}-${Math.random().toString(36).slice(2, 4)}`
LastResort(candidate, frac) ==
  candidate \o <<"-">> \o Slice(RandomToString36(frac), 2, 4)

\* .from("profiles").select("id").eq("username", candidate).neq("id", selfId)
TakenByOther(candidate, selfId) ==
  \E p \in profiles : p.username = candidate /\ p.id # selfId

\* .upsert({ id, username, ... }, { onConflict: "id" })
Upsert(table, row) == { p \in table : p.id # row.id } \cup {row}

CallbackInitLoc == [candidate |-> <<>>, suffix |-> 0, i |-> 0, username |-> <<>>]

CallbackInit ==
  /\ variant = "callback"
  /\ hasKey = TRUE
  /\ schema = {}
  /\ collections = {}
  /\ artifacts = <<>>
  /\ req \in [Users -> DesiredBases]
  /\ pc = [u \in Users |-> "cb_session"]
  /\ loc = [u \in Users |-> CallbackInitLoc]
  /\ resp = [u \in Users |-> Null]
  /\ calls = <<>>
  /\ attempts = <<>>
  /\ profiles = {}

\* exchangeCodeForSession and getUser; without a code or a user the handler
\* redirects at once, otherwise the base name is sanitized
CallbackGetUser(u) ==
  /\ pc[u] = "cb_session"
  /\ \E o \in AuthOutcomes :
       IF o = "ok"
         THEN \E frac \in RandFracs :
                /\ loc' = [loc EXCEPT ![u].candidate = sanitizeUsername(req[u], frac)]
                /\ pc' = [pc EXCEPT ![u] = "cb_lookup"]
                /\ resp' = resp
         ELSE /\ loc' = loc
              /\ pc' = [pc EXCEPT ![u] = "done"]
              /\ resp' = [resp EXCEPT ![u] = "redirect"]
  /\ UNCHANGED <<variant, hasKey, schema, collections, artifacts, req, calls,
                 attempts, profiles>>

\* one turn of the loop of ensureUniqueUsername: the lookup, and either the
\* return of the candidate or the next candidate; after the last turn the
\* last-resort name
ensureUniqueUsername(u) ==
  /\ pc[u] = "cb_lookup"
  /\ \E o \in {"data", "error"}, frac \in RandFracs :
       LET l == loc[u]
           next == NextCandidate(l.candidate, l.suffix + 1)
       IN  IF o = "data" /\ ~TakenByOther(l.candidate, u)
             THEN /\ loc' = [loc EXCEPT ![u].username = l.candidate]
                  /\ pc' = [pc EXCEPT ![u] = "cb_upsert"]
           ELSE IF l.i + 1 < MaxCandidates
             THEN /\ loc' = [loc EXCEPT ![u].candidate = next,
                                        ![u].suffix = l.suffix + 1,
                                        ![u].i = l.i + 1]
                  /\ pc' = pc
           ELSE /\ loc' = [loc EXCEPT ![u].candidate = next,
                                      ![u].suffix = l.suffix + 1,
                                      ![u].i = l.i + 1,
                                      ![u].username = LastResort(next, frac)]
                /\ pc' = [pc EXCEPT ![u] = "cb_upsert"]
  /\ UNCHANGED <<variant, hasKey, schema, collections, artifacts, req, resp,
                 calls, attempts, profiles>>

\* the upsert of the profile, its result not looked at, and the redirect
CallbackUpsert(u) ==
  /\ pc[u] = "cb_upsert"
  /\ \E ok \in BOOLEAN :
       profiles' = IF ok THEN Upsert(profiles, [id |-> u, username |-> loc[u].username])
                   ELSE profiles
  /\ pc' = [pc EXCEPT ![u] = "done"]
  /\ resp' = [resp EXCEPT ![u] = "redirect"]
  /\ UNCHANGED <<variant, hasKey, schema, collections, artifacts, req, loc,
                 calls, attempts>>

CallbackNext ==
  \E u \in Users :
    \/ CallbackGetUser(u)
    \/ ensureUniqueUsername(u)
    \/ CallbackUpsert(u)

CallbackSpec == CallbackInit /\ [][CallbackNext]_vars

\* C29: no two rows of profiles have the same username.
C29_UsernamesUnique ==
  \A p, q \in profiles : p.username = q.username => p.id = q.id

\* ------------------------------------------ two ingest requests in flight

\* Each invocation of POST has its own req, locals, response and logs; the
\* module scope holds constants only (uuidRegex has no g flag, so test()
\* keeps no lastIndex), and the tables are all two invocations share.  The
\* invocation that is not running is kept aside in loc.parked, and the
\* event loop resumes it at any await.
Parked == loc.parked

Running ==
  [ req |-> req, pc |-> pc, loc |-> [loc EXCEPT !.parked = Null],
    resp |-> resp, calls |-> calls, attempts |-> attempts ]

\* text-only submissions, with and without a collection reference
ConcRequests ==
  { r \in Requests :
      /\ r.carrier = "form" /\ r.nImages = 0 /\ ~r.audio /\ r.text = TextShort
      /\ <<r.colField, r.colValue>> \in
           { <<"none", NoRef>>, <<"collectionId", UuidA>>, <<"collectionId", SlugFamily>> } }

ConcInit ==
  /\ variant \in {"route", "part008b"}
  /\ hasKey = TRUE
  /\ schema \in {ArtifactColumns, ArtifactColumns \ {"collection_id"}}
  /\ collections = CollectionRows
  /\ artifacts = <<>>
  /\ req \in ConcRequests
  /\ pc = "auth"
  /\ \E other \in ConcRequests :
       loc = [parked |-> [ req |-> other, pc |-> "auth",
                           loc |-> [parked |-> Null] @@ InitLoc,
                           resp |-> NoResp, calls |-> <<>>, attempts |-> <<>> ]]
               @@ InitLoc
  /\ resp = NoResp
  /\ calls = <<>>
  /\ attempts = <<>>
  /\ profiles = {}

\* the running invocation is suspended at its await and the other resumes
Switch ==
  /\ req' = Parked.req
  /\ pc' = Parked.pc
  /\ loc' = [Parked.loc EXCEPT !.parked = Running]
  /\ resp' = Parked.resp
  /\ calls' = Parked.calls
  /\ attempts' = Parked.attempts
  /\ UNCHANGED <<variant, hasKey, schema, collections, artifacts, profiles>>

ConcNext ==
  \/ GetUser
  \/ ParseRequest
  \/ ResolveSlug
  \/ Structure
  \/ Insert
  \/ RetryInsert
  \/ UpdateCollection
  \/ Switch

ConcSpec == ConcInit /\ [][ConcNext]_vars

\* the row the running invocation inserted is as it wrote it
OwnRowKept ==
  loc.inserted.id # 0 =>
    LET row == artifacts[loc.inserted.id]
    IN  /\ row.slug = loc.slug
        /\ row.data = loc.dataPayload
        /\ row.collection_id \in {loc.inserted.collection_id, loc.finalCollectionId}

\* the 200 response of the running invocation is about its own row
ResponseOwn ==
  (Finished /\ resp.status = 200) =>
    /\ resp.slug = loc.slug
    /\ \E i \in DOMAIN artifacts :
         artifacts[i].slug = loc.slug /\ artifacts[i].data = loc.dataPayload
    /\ variant = "part008b" =>
         /\ resp.id = loc.inserted.id
         /\ artifacts[resp.id].slug = resp.slug

\* two invocations answered with 200 have persisted one row each
BothPersisted ==
  (Finished /\ resp.status = 200 /\ Parked.pc = "done" /\ Parked.resp.status = 200) =>
    /\ Len(artifacts) = 2
    /\ variant = "part008b" => loc.inserted.id # Parked.loc.inserted.id

\* a step of the running invocation leaves the other invocation as it was,
\* and every stored row too, but for the collection_id of its own row in
\* the update step
OthersUntouched ==
  /\ loc'.parked # loc.parked =>
       (loc'.parked = Running /\ Running' = Parked /\ artifacts' = artifacts)
  /\ \A i \in DOMAIN artifacts :
       /\ i \in DOMAIN artifacts'
       /\ \/ artifacts'[i] = artifacts[i]
          \/ /\ pc = "update" /\ i = loc.inserted.id
             /\ artifacts'[i] = [artifacts[i] EXCEPT !.collection_id = loc.collectionId]

\* C23: two ingest requests interleaved at their awaits share the tables
\* only: no step of one changes the locals of the other or a row the other
\* wrote, each 200 response describes the row its own request inserted, and
\* two 200 responses mean two rows.
C23_RequestsIsolated ==
  /\ [](OwnRowKept /\ ResponseOwn /\ BothPersisted)
  /\ [][OthersUntouched]_vars

\* both invocations answered 200 after the second was resumed between the
\* insert and the update of the first, both with the same slug
C23_Witness ==
  /\ variant = "part008b"
  /\ Finished /\ resp.status = 200 /\ Parked.pc = "done" /\ Parked.resp.status = 200
  /\ loc.slug = Parked.loc.slug
  /\ Called("update")
  /\ loc.inserted.id = 1 /\ Parked.loc.inserted.id = 2

\* C30: the artifact page's query for the slug of a 200 response
\* (.eq("slug", slug).single()) finds one row, the artifact of the request.
C30_SlugFindsArtifact ==
  (Finished /\ resp.status = 200) =>
    /\ Cardinality({ i \in DOMAIN artifacts : artifacts[i].slug = resp.slug }) = 1
    /\ \A i \in DOMAIN artifacts :
         artifacts[i].slug = resp.slug => artifacts[i].data = loc.dataPayload

====
